---- MODULE Spec2Model ----
(***************************************************************************)
(* Model of the NTA AI chat application.                                   *)
(*                                                                         *)
(*   server.ts  - an Express server over a SQLite database (better-sqlite3)*)
(*                with the tables threads and messages and six routes      *)
(*                under /api/threads.                                      *)
(*   App (React) - the client: chats, currentChatId, messages, input,      *)
(*                isLoading, and the async handlers createNewChat,         *)
(*                fetchChatDetails and handleSendMessage, which issue      *)
(*                their requests under /api/chats.                         *)
(*                                                                         *)
(* Environment assumptions, stated once:                                   *)
(*  - CURRENT_TIMESTAMP is read from a clock that never runs backwards;    *)
(*    it is modelled as the integer now, advanced by Tick and possibly     *)
(*    between the two statements of one handler.                           *)
(*  - better-sqlite3 is built with SQLITE_DEFAULT_FOREIGN_KEYS=1, so the   *)
(*    FOREIGN KEY ... ON DELETE CASCADE clause of the schema is enforced.  *)
(*  - A SELECT without a usable index scans the table in rowid order and   *)
(*    SQLite's sorter keeps rows with equal keys in scan order.            *)
(*  - Node runs each (synchronous) route handler to completion, so one     *)
(*    handler is one step.                                                 *)
(***************************************************************************)
EXTENDS Integers, Sequences, FiniteSets, TLC

\* ---------------------------------------------------------------- bounds
MaxClock == 1
MaxRows == 2
MaxSends == 2

\* ------------------------------------------------------- input alphabets
\* What a request to the server can carry.  The server stores role and
\* content as given and never looks at them, so one value of each stands for
\* all; the role is one the client never sends.
ThreadIds == {"t1", "t2"}
Titles == {"A", "B"}
Roles == {"system"}
Contents == {"a"}

\* ------------------------------------------------------------- variables
VARIABLES
  now,            \* the clock behind CURRENT_TIMESTAMP (seconds)
  db_threads,     \* table threads, rows in rowid order
  db_messages,    \* table messages, rows in rowid order
  db_seq,         \* sqlite_sequence entry of messages (AUTOINCREMENT)
  last,           \* route and status of the last response the server sent
  chats,          \* useState<ChatSession[]>([])
  currentChatId,  \* useState<string | null>(null)
  messages,       \* useState<Message[]>([])
  input,          \* useState("")
  isLoading,      \* useState(false)
  uuids,          \* how many ids crypto.randomUUID() has handed out
  sends,          \* the calls of handleSendMessage that passed its guard
  newChats,       \* the calls of createNewChat that are awaiting
  details         \* the ids fetchChatDetails is awaiting an answer for

dbvars == <<db_threads, db_messages, db_seq>>
servervars == <<now, db_threads, db_messages, db_seq, last>>
clientvars == <<chats, currentChatId, messages, input, isLoading, uuids, sends,
                newChats, details>>
vars == <<now, db_threads, db_messages, db_seq, last, chats, currentChatId,
          messages, input, isLoading, uuids, sends, newChats, details>>

\* ------------------------------------------------------------ sequences
Range(s) == {s[i] : i \in 1..Len(s)}

Front(s) == SubSeq(s, 1, Len(s) - 1)

\* ------------------------------------------------------------- database
ThreadIdsOf(ths) == {ths[i].id : i \in 1..Len(ths)}

\* one step of the sorter for ORDER BY created_at ASC: the row goes after
\* every row whose key is not greater (rows with equal keys keep scan order)
SorterInsertAsc(sorted, r) ==
  LET k == Cardinality({i \in 1..Len(sorted) : sorted[i].created_at <= r.created_at})
  IN SubSeq(sorted, 1, k) \o <<r>> \o SubSeq(sorted, k + 1, Len(sorted))

RECURSIVE OrderByCreatedAtDesc(_)
OrderByCreatedAtDesc(rows) ==
  IF rows = <<>> THEN <<>>
  ELSE LET rest == OrderByCreatedAtDesc(Front(rows))
           r == rows[Len(rows)]
           k == Cardinality({i \in 1..Len(rest) : rest[i].created_at >= r.created_at})
       IN SubSeq(rest, 1, k) \o <<r>> \o SubSeq(rest, k + 1, Len(rest))

RECURSIVE OrderByCreatedAt(_)
OrderByCreatedAt(rows) ==
  IF rows = <<>> THEN <<>>
  ELSE SorterInsertAsc(OrderByCreatedAt(Front(rows)), rows[Len(rows)])

\* SELECT * FROM messages WHERE thread_id = ? ORDER BY created_at ASC
SelectMessages(msgs, id) ==
  LET OfThread(m) == m.thread_id = id
  IN OrderByCreatedAt(SelectSeq(msgs, OfThread))

\* a thread row's updated_at is replaced where the id matches
SetUpdatedAt(ths, id, t) ==
  [i \in 1..Len(ths) |->
     IF ths[i].id = id THEN [ths[i] EXCEPT !.updated_at = t] ELSE ths[i]]

SetTitle(ths, id, title) ==
  [i \in 1..Len(ths) |->
     IF ths[i].id = id THEN [ths[i] EXCEPT !.title = title] ELSE ths[i]]

\* one step of the sorter for ORDER BY updated_at DESC
SorterInsertUpdatedDesc(sorted, r) ==
  LET k == Cardinality({i \in 1..Len(sorted) : sorted[i].updated_at >= r.updated_at})
  IN SubSeq(sorted, 1, k) \o <<r>> \o SubSeq(sorted, k + 1, Len(sorted))

RECURSIVE OrderByUpdatedAtDesc(_)
OrderByUpdatedAtDesc(rows) ==
  IF rows = <<>> THEN <<>>
  ELSE SorterInsertUpdatedDesc(OrderByUpdatedAtDesc(Front(rows)), rows[Len(rows)])

\* the schema's FOREIGN KEY(thread_id) REFERENCES threads(id) is enforced
ForeignKeysOff == FALSE

ForeignKeys == TRUE

\* --------------------------------------------------------- route handlers
\* A handler maps the database, the clock and the request to the database
\* afterwards and the response.  status 500 is Express's answer to a handler
\* that threw (a SqliteError); the statement that threw changed nothing.
Result(ths, msgs, seq, clk, route, id, status, body) ==
  [threads |-> ths, messages |-> msgs, seq |-> seq, now |-> clk,
   route |-> route, id |-> id, status |-> status, body |-> body]

NoId == "-"

\* app.get("/api/threads")
GetThreads(ths, msgs, seq, clk) ==
  Result(ths, msgs, seq, clk, "GET /api/threads", NoId, 200, OrderByUpdatedAtDesc(ths))

\* app.post("/api/threads") with INSERT OR REPLACE instead of INSERT
PostThreadsReplace(ths, msgs, seq, clk, id, title) ==
  LET NotId(r) == r.id # id
      row == [id |-> id, title |-> title, created_at |-> clk, updated_at |-> clk]
  IN Result(Append(SelectSeq(ths, NotId), row), msgs, seq, clk,
            "POST /api/threads", id, 200, "success")

\* app.post("/api/threads"): id is the PRIMARY KEY, a second INSERT of it throws
PostThreads(ths, msgs, seq, clk, id, title) ==
  IF id \in ThreadIdsOf(ths)
  THEN Result(ths, msgs, seq, clk, "POST /api/threads", id, 500, "SqliteError")
  ELSE Result(Append(ths, [id |-> id, title |-> title,
                           created_at |-> clk, updated_at |-> clk]),
              msgs, seq, clk, "POST /api/threads", id, 200, "success")

\* app.get("/api/threads/:id/messages")
GetThreadMessages(ths, msgs, seq, clk, id) ==
  Result(ths, msgs, seq, clk, "GET /api/threads/:id/messages", id, 200,
         SelectMessages(msgs, id))

\* app.post("/api/threads/:id/messages") without its UPDATE statement
PostThreadMessagesNoUpdate(ths, msgs, seq, clk, dt, id, role, content) ==
  IF ForeignKeys /\ id \notin ThreadIdsOf(ths)
  THEN Result(ths, msgs, seq, clk, "POST /api/threads/:id/messages", id, 500, "SqliteError")
  ELSE Result(ths,
              Append(msgs, [id |-> seq + 1, thread_id |-> id, role |-> role,
                            content |-> content, created_at |-> clk]),
              seq + 1, clk + dt, "POST /api/threads/:id/messages", id, 200, "success")

\* app.post("/api/threads/:id/messages"): the INSERT (AUTOINCREMENT id,
\* created_at DEFAULT CURRENT_TIMESTAMP, foreign key checked), then the UPDATE
\* of the thread's updated_at, dt seconds later
PostThreadMessages(ths, msgs, seq, clk, dt, id, role, content) ==
  IF ForeignKeys /\ id \notin ThreadIdsOf(ths)
  THEN Result(ths, msgs, seq, clk, "POST /api/threads/:id/messages", id, 500, "SqliteError")
  ELSE Result(SetUpdatedAt(ths, id, clk + dt),
              Append(msgs, [id |-> seq + 1, thread_id |-> id, role |-> role,
                            content |-> content, created_at |-> clk]),
              seq + 1, clk + dt, "POST /api/threads/:id/messages", id, 200, "success")

\* app.delete("/api/threads/:id") without ON DELETE CASCADE
DeleteThreadsNoCascade(ths, msgs, seq, clk, id) ==
  LET NotId(r) == r.id # id
  IN Result(SelectSeq(ths, NotId), msgs, seq, clk, "DELETE /api/threads/:id", id, 200, "success")

\* app.delete("/api/threads/:id") whose delete of messages has no WHERE
DeleteThreadsAllMessages(ths, msgs, seq, clk, id) ==
  LET NotId(r) == r.id # id
  IN Result(SelectSeq(ths, NotId), <<>>, seq, clk, "DELETE /api/threads/:id", id, 200, "success")

\* app.delete("/api/threads/:id"): the DELETE cascades to the thread's messages
DeleteThreads(ths, msgs, seq, clk, id) ==
  LET NotId(r) == r.id # id
      NotOfThread(m) == m.thread_id # id
  IN Result(SelectSeq(ths, NotId),
            IF ForeignKeys THEN SelectSeq(msgs, NotOfThread) ELSE msgs,
            seq, clk, "DELETE /api/threads/:id", id, 200, "success")

\* app.patch("/api/threads/:id")
PatchThreads(ths, msgs, seq, clk, id, title) ==
  Result(SetTitle(ths, id, title), msgs, seq, clk, "PATCH /api/threads/:id", id, 200, "success")

\* no route matches: the vite middleware (or express.static and
\* app.get("*")) answers a GET with index.html, Express answers anything
\* else with its 404 page; neither body is JSON and the database is untouched
Fallthrough(ths, msgs, seq, clk, method) ==
  Result(ths, msgs, seq, clk, "none", NoId, IF method = "GET" THEN 200 ELSE 404, "html")

\* ---------------------------------------------------------------- routing
\* a request is [method, path, body]; body carries id, title, role, content
\* (NoId where the JSON has no such member)
Body(id, title, role, content) ==
  [id |-> id, title |-> title, role |-> role, content |-> content]

Request(method, path, body) == [method |-> method, path |-> path, body |-> body]

IsThreadsPath(path) == path = <<"api", "threads">>

IsThreadPath(path) == Len(path) = 3 /\ path[1] = "api" /\ path[2] = "threads"

IsThreadMessagesPath(path) ==
  Len(path) = 4 /\ path[1] = "api" /\ path[2] = "threads" /\ path[4] = "messages"

\* Express tries the routes in registration order
Serve(ths, msgs, seq, clk, dt, req) ==
  CASE req.method = "GET" /\ IsThreadsPath(req.path) ->
         GetThreads(ths, msgs, seq, clk)
    [] req.method = "POST" /\ IsThreadsPath(req.path) ->
         PostThreads(ths, msgs, seq, clk, req.body.id, req.body.title)
    [] req.method = "GET" /\ IsThreadMessagesPath(req.path) ->
         GetThreadMessages(ths, msgs, seq, clk, req.path[3])
    [] req.method = "POST" /\ IsThreadMessagesPath(req.path) ->
         PostThreadMessages(ths, msgs, seq, clk, dt, req.path[3],
                            req.body.role, req.body.content)
    [] req.method = "DELETE" /\ IsThreadPath(req.path) ->
         DeleteThreads(ths, msgs, seq, clk, req.path[3])
    [] req.method = "PATCH" /\ IsThreadPath(req.path) ->
         PatchThreads(ths, msgs, seq, clk, req.path[3], req.body.title)
    [] OTHER -> Fallthrough(ths, msgs, seq, clk, req.method)

\* the server answers one request: the database, the clock and the response
Answer(req, dt) ==
  LET r == Serve(db_threads, db_messages, db_seq, now, dt, req)
  IN /\ db_threads' = r.threads
     /\ db_messages' = r.messages
     /\ db_seq' = r.seq
     /\ now' = r.now
     /\ last' = [route |-> r.route, status |-> r.status]

\* the seconds that can pass between the two statements of one handler
Dts == {d \in 0..1 : now + d <= MaxClock}

\* --------------------------------------------------- requests of any client
\* The six routes, called by any HTTP client with inputs of its choosing.
listThreads ==
  /\ Answer(Request("GET", <<"api", "threads">>, Body(NoId, NoId, NoId, NoId)), 0)
  /\ UNCHANGED clientvars

createThread(id, title) ==
  /\ Answer(Request("POST", <<"api", "threads">>, Body(id, title, NoId, NoId)), 0)
  /\ UNCHANGED clientvars

listMessages(id) ==
  /\ Answer(Request("GET", <<"api", "threads", id, "messages">>,
                    Body(NoId, NoId, NoId, NoId)), 0)
  /\ UNCHANGED clientvars

appendMessage(id, role, content) ==
  /\ db_seq < MaxRows
  /\ \E dt \in Dts :
       Answer(Request("POST", <<"api", "threads", id, "messages">>,
                      Body(NoId, NoId, role, content)), dt)
  /\ UNCHANGED clientvars

deleteThread(id) ==
  /\ Answer(Request("DELETE", <<"api", "threads", id>>, Body(NoId, NoId, NoId, NoId)), 0)
  /\ UNCHANGED clientvars

renameThread(id, title) ==
  /\ Answer(Request("PATCH", <<"api", "threads", id>>, Body(NoId, title, NoId, NoId)), 0)
  /\ UNCHANGED clientvars

\* a second passes
Tick ==
  /\ now < MaxClock
  /\ now' = now + 1
  /\ UNCHANGED <<db_threads, db_messages, db_seq, last>>
  /\ UNCHANGED clientvars

\* ------------------------------------------------------------ the client
Null == "null"

\* the ids crypto.randomUUID() returns, in the order it returns them
Uuids == <<"t1", "t2">>

\* what the user can have in the textarea
Inputs == {"", " ", "a"}

\* String.prototype.trim over Inputs
Trim(s) == IF s = " " THEN "" ELSE s

\* response.text of a generateContent call that returned
Texts == {"r", ""}

\* "I'm sorry, I couldn't generate a response."
Sorry == "sorry"

\* "Error: Failed to connect to AI service."
ErrorText == "error"

\* a fetch either reaches the server and resolves with its response, whatever
\* the status, or rejects
Nets == {"ok", "down"}

Message(role, content) == [role |-> role, content |-> content]

\* input.slice(0, 30) + (input.length > 30 ? "..." : ""); every string of
\* Inputs is shorter than 30 characters
TitleOf(s) == s

\* the body of a response parses as JSON exactly when a route answered it
IsJson(route) == route # "none"

\* setInput(e.target.value)
setInput(v) ==
  /\ input' = v
  /\ UNCHANGED <<chats, currentChatId, messages, isLoading, uuids, sends, newChats, details>>
  /\ UNCHANGED servervars

Send(pc, id, content, history) ==
  [pc |-> pc, id |-> id, content |-> content, history |-> history,
   contents |-> <<>>, reply |-> "", outcome |-> "-"]

\* handleSendMessage up to its first await: the guard, then either the POST
\* that creates a chat (none selected) or the POST of the user message
handleSendMessage ==
  IF Trim(input) = "" \/ isLoading
  THEN UNCHANGED vars
  ELSE /\ Len(sends) < MaxSends
       /\ IF currentChatId = Null
          THEN /\ uuids < Len(Uuids)
               /\ uuids' = uuids + 1
               /\ sends' = Append(sends, Send("create", Uuids[uuids + 1], input, messages))
               /\ UNCHANGED <<chats, currentChatId, messages, input, isLoading,
                              newChats, details>>
          ELSE /\ messages' = Append(messages, Message("user", input))
               /\ input' = ""
               /\ isLoading' = TRUE
               /\ sends' = Append(sends, Send("saveUser", currentChatId, input, messages))
               /\ UNCHANGED <<chats, currentChatId, uuids, newChats, details>>
       /\ UNCHANGED servervars

\* await fetch("/api/chats", POST {id, title}): outside the try, a rejection
\* ends the handler
awaitCreateChat(i, net) ==
  /\ sends[i].pc = "create"
  /\ IF net = "ok"
     THEN /\ Answer(Request("POST", <<"api", "chats">>,
                            Body(sends[i].id, TitleOf(sends[i].content), NoId, NoId)), 0)
          /\ sends' = [sends EXCEPT ![i].pc = "fetchChats"]
     ELSE /\ sends' = [sends EXCEPT ![i].pc = "done", ![i].outcome = "createRejected"]
          /\ UNCHANGED servervars
  /\ UNCHANGED <<chats, currentChatId, messages, input, isLoading, uuids, newChats, details>>

\* await fetchChats() (it catches its own errors), then the handler runs to
\* its next await: setCurrentChatId(id), whose effect starts
\* fetchChatDetails(id), the optimistic user message, setInput(""),
\* setIsLoading(true) and the POST of the user message
awaitFetchChats(i, net) ==
  /\ sends[i].pc = "fetchChats"
  /\ IF net = "ok"
     THEN /\ Answer(Request("GET", <<"api", "chats">>, Body(NoId, NoId, NoId, NoId)), 0)
          /\ chats' = IF IsJson(last'.route) THEN <<>> ELSE chats
     ELSE /\ UNCHANGED servervars
          /\ UNCHANGED chats
  /\ currentChatId' = sends[i].id
  /\ details' = IF currentChatId # sends[i].id THEN details \cup {sends[i].id} ELSE details
  /\ messages' = Append(messages, Message("user", sends[i].content))
  /\ input' = ""
  /\ isLoading' = TRUE
  /\ sends' = [sends EXCEPT ![i].pc = "saveUser"]
  /\ UNCHANGED <<uuids, newChats>>

\* await fetch(`/api/chats/${chatId}/messages`, POST userMessage), then the
\* call of ai.models.generateContent with [...messages, userMessage]; a
\* rejection goes to the catch and the finally
awaitSaveUser(i, net) ==
  /\ sends[i].pc = "saveUser"
  /\ IF net = "ok"
     THEN /\ Answer(Request("POST", <<"api", "chats", sends[i].id, "messages">>,
                            Body(NoId, NoId, "user", sends[i].content)), 0)
          /\ sends' = [sends EXCEPT
               ![i].pc = "generate",
               ![i].contents = Append(sends[i].history, Message("user", sends[i].content))]
          /\ UNCHANGED <<messages, isLoading>>
     ELSE /\ messages' = Append(messages, Message("model", ErrorText))
          /\ isLoading' = FALSE
          /\ sends' = [sends EXCEPT ![i].pc = "done", ![i].outcome = "userSaveRejected"]
          /\ UNCHANGED servervars
  /\ UNCHANGED <<chats, currentChatId, input, uuids, newChats, details>>

\* await ai.models.generateContent(...): with a text, the reply is shown and
\* its POST is sent; a rejection goes to the catch and the finally
awaitGenerate(i, ok, text) ==
  /\ sends[i].pc = "generate"
  /\ IF ok
     THEN LET aiContent == IF text = "" THEN Sorry ELSE text
          IN /\ messages' = Append(messages, Message("model", aiContent))
             /\ sends' = [sends EXCEPT ![i].pc = "saveModel", ![i].reply = aiContent]
             /\ UNCHANGED isLoading
     ELSE /\ messages' = Append(messages, Message("model", ErrorText))
          /\ isLoading' = FALSE
          /\ sends' = [sends EXCEPT ![i].pc = "done", ![i].outcome = "modelFailed",
                                    ![i].history = <<>>, ![i].contents = <<>>]
  /\ UNCHANGED <<chats, currentChatId, input, uuids, newChats, details>>
  /\ UNCHANGED servervars

\* await fetch(`/api/chats/${chatId}/messages`, POST aiMessage), then the
\* finally
awaitSaveModel(i, net) ==
  /\ sends[i].pc = "saveModel"
  /\ IF net = "ok"
     THEN /\ Answer(Request("POST", <<"api", "chats", sends[i].id, "messages">>,
                            Body(NoId, NoId, "model", sends[i].reply)), 0)
          /\ sends' = [sends EXCEPT ![i].pc = "done", ![i].outcome = "ok",
                                    ![i].history = <<>>, ![i].contents = <<>>]
          /\ UNCHANGED messages
     ELSE /\ messages' = Append(messages, Message("model", ErrorText))
          /\ sends' = [sends EXCEPT ![i].pc = "done", ![i].outcome = "replySaveRejected",
                                    ![i].history = <<>>, ![i].contents = <<>>]
          /\ UNCHANGED servervars
  /\ isLoading' = FALSE
  /\ UNCHANGED <<chats, currentChatId, input, uuids, newChats, details>>

\* createNewChat up to its first await
createNewChat ==
  /\ uuids < Len(Uuids)
  /\ uuids' = uuids + 1
  /\ newChats' = newChats \cup {[id |-> Uuids[uuids + 1], pc |-> "create"]}
  /\ UNCHANGED <<chats, currentChatId, messages, input, isLoading, sends, details>>
  /\ UNCHANGED servervars

\* createNewChat: await fetch("/api/chats", POST {id, "New Conversation"});
\* a rejection goes to its catch
awaitNewChat(c, net) ==
  /\ c \in newChats
  /\ c.pc = "create"
  /\ IF net = "ok"
     THEN /\ Answer(Request("POST", <<"api", "chats">>,
                            Body(c.id, "New Conversation", NoId, NoId)), 0)
          /\ newChats' = (newChats \ {c}) \cup {[c EXCEPT !.pc = "fetchChats"]}
     ELSE /\ newChats' = newChats \ {c}
          /\ UNCHANGED servervars
  /\ UNCHANGED <<chats, currentChatId, messages, input, isLoading, uuids, sends, details>>

\* createNewChat: await fetchChats(), then setCurrentChatId(id), whose effect
\* starts fetchChatDetails(id)
awaitNewChatFetchChats(c, net) ==
  /\ c \in newChats
  /\ c.pc = "fetchChats"
  /\ IF net = "ok"
     THEN /\ Answer(Request("GET", <<"api", "chats">>, Body(NoId, NoId, NoId, NoId)), 0)
          /\ chats' = IF IsJson(last'.route) THEN <<>> ELSE chats
     ELSE /\ UNCHANGED servervars
          /\ UNCHANGED chats
  /\ newChats' = newChats \ {c}
  /\ currentChatId' = c.id
  /\ details' = IF currentChatId # c.id THEN details \cup {c.id} ELSE details
  /\ UNCHANGED <<messages, input, isLoading, uuids, sends>>

\* fetchChatDetails: await fetch(`/api/chats/${id}`) and res.json(); a body
\* that is not JSON, or a rejection, goes to its catch; a JSON body of this
\* server has no member messages
fetchChatDetails(id, net) ==
  /\ id \in details
  /\ details' = details \ {id}
  /\ IF net = "ok"
     THEN /\ Answer(Request("GET", <<"api", "chats", id>>, Body(NoId, NoId, NoId, NoId)), 0)
          /\ messages' = IF IsJson(last'.route) THEN <<>> ELSE messages
     ELSE /\ UNCHANGED servervars
          /\ UNCHANGED messages
  /\ UNCHANGED <<chats, currentChatId, input, isLoading, uuids, sends, newChats>>

\* ------------------------------------------------------- specifications
NoRequest == [route |-> "start", status |-> 0]

Init ==
  /\ now = 0
  /\ db_threads = <<>>
  /\ db_messages = <<>>
  /\ db_seq = 0
  /\ last = NoRequest
  /\ chats = <<>>
  /\ currentChatId = Null
  /\ messages = <<>>
  /\ input = ""
  /\ isLoading = FALSE
  /\ uuids = 0
  /\ sends = <<>>
  /\ newChats = {}
  /\ details = {}

\* the server under the requests of any client
NextStore ==
  \/ Tick
  \/ listThreads
  \/ \E id \in ThreadIds, title \in Titles : createThread(id, title)
  \/ \E id \in ThreadIds : listMessages(id)
  \/ \E id \in ThreadIds, role \in Roles, content \in Contents :
       appendMessage(id, role, content)
  \/ \E id \in ThreadIds : deleteThread(id)
  \/ \E id \in ThreadIds, title \in Titles : renameThread(id, title)

SpecStore == Init /\ [][NextStore]_vars

\* the client against the server: every request of the client is answered
\* by Serve
Next ==
  \/ \E v \in Inputs : setInput(v)
  \/ handleSendMessage
  \/ \E i \in 1..Len(sends), net \in Nets : awaitCreateChat(i, net)
  \/ \E i \in 1..Len(sends), net \in Nets : awaitFetchChats(i, net)
  \/ \E i \in 1..Len(sends), net \in Nets : awaitSaveUser(i, net)
  \/ \E i \in 1..Len(sends), ok \in BOOLEAN, text \in Texts : awaitGenerate(i, ok, text)
  \/ \E i \in 1..Len(sends), net \in Nets : awaitSaveModel(i, net)
  \/ createNewChat
  \/ \E c \in newChats, net \in Nets : awaitNewChat(c, net)
  \/ \E c \in newChats, net \in Nets : awaitNewChatFetchChats(c, net)
  \/ \E id \in details, net \in Nets : fetchChatDetails(id, net)

Spec == Init /\ [][Next]_vars

\* ------------------------------------------------------------ properties
NoBody == Body(NoId, NoId, NoId, NoId)

\* what GET /api/threads/:id/messages answers in the current state
Listed(id) ==
  Serve(db_threads, db_messages, db_seq, now, 0,
        Request("GET", <<"api", "threads", id, "messages">>, NoBody)).body

\* the rows of a thread in the order their appendMessage calls were made
\* (a call appends its row to the table)
Called(id) ==
  LET OfThread(m) == m.thread_id = id
  IN SelectSeq(db_messages, OfThread)

\* role and content of each message of a sequence of rows
Strip(rows) == [i \in 1..Len(rows) |-> Message(rows[i].role, rows[i].content)]

ThreadRow(ths, id) == CHOOSE t \in Range(ths) : t.id = id

\* C1: listMessages on a thread returns the thread's messages in the order
\* of the appendMessage calls, with strictly increasing ids, also when
\* several messages have the same created_at.
C1_ListInCallOrder ==
  \A id \in ThreadIds :
    /\ Listed(id) = Called(id)
    /\ \A i \in 1..(Len(Listed(id)) - 1) : Listed(id)[i].id < Listed(id)[i + 1].id

\* C1 witness: a thread has two messages with the same created_at and
\* listMessages has just been answered.
C1_Witness ==
  /\ last.route = "GET /api/threads/:id/messages"
  /\ \E id \in ThreadIds :
       /\ Len(Called(id)) >= 2
       /\ Called(id)[1].created_at = Called(id)[2].created_at

NoOrphans ==
  \A i \in 1..Len(db_messages) : db_messages[i].thread_id \in ThreadIdsOf(db_threads)

\* C2: after every step every stored message's thread_id is the id of an
\* existing thread, and a deleteThread(T) step leaves no thread T, no message
\* of T and no T in what listThreads answers.
C2_NoOrphans ==
  [][/\ NoOrphans'
     /\ \A id \in ThreadIds :
          deleteThread(id) =>
            /\ id \notin ThreadIdsOf(db_threads')
            /\ \A i \in 1..Len(db_messages') : db_messages'[i].thread_id # id
            /\ id \notin ThreadIdsOf(GetThreads(db_threads', db_messages', db_seq', now').body)
    ]_vars

\* C2 witness: deleteThread has just removed a thread together with its
\* messages (ids were handed out for rows that are gone) while another
\* thread and its message remain.
C2_Witness ==
  /\ last.route = "DELETE /api/threads/:id"
  /\ db_seq > Len(db_messages)
  /\ db_messages # <<>>

\* C3: every thread's updated_at is at least the created_at of each of its
\* messages, so of its most recent one.
C3_UpdatedAtCoversMessages ==
  \A i \in 1..Len(db_threads) : \A j \in 1..Len(db_messages) :
    db_messages[j].thread_id = db_threads[i].id =>
      db_threads[i].updated_at >= db_messages[j].created_at

\* C3 witness: a thread created at second 0 has a message of a later second,
\* and has since been renamed.
C3_Witness ==
  /\ last.route = "PATCH /api/threads/:id"
  /\ \E i \in 1..Len(db_threads) : \E j \in 1..Len(db_messages) :
       /\ db_messages[j].thread_id = db_threads[i].id
       /\ db_threads[i].created_at < db_messages[j].created_at

C8_Original ==
  [][\A id \in ThreadIds :
       listMessages(id) =>
         IF id \in ThreadIdsOf(db_threads)
         THEN last'.status = 200 /\ Listed(id) = Called(id)
         ELSE last'.status # 200
    ]_vars

Moved(i, pc, pc2) ==
  /\ i \in 1..Len(sends)
  /\ sends[i].pc = pc
  /\ sends'[i].pc = pc2

\* C4 as claimed: when a turn on T ends after a successful model call, T's
\* stored messages end with the turn's user message (stored first, before
\* the model was called) followed by the reply, and T's updated_at is not
\* earlier than the reply's created_at.
C4_Original ==
  [][\A i \in 1..Len(sends) :
       (Moved(i, "saveModel", "done") /\ sends'[i].outcome = "ok") =>
            LET stored == SelectMessages(db_messages', sends[i].id)
                n == Len(stored)
            IN /\ n >= 2
               /\ Strip(stored)[n - 1] = Message("user", sends[i].content)
               /\ Strip(stored)[n] = Message("model", sends[i].reply)
               /\ sends[i].id \in ThreadIdsOf(db_threads')
               /\ ThreadRow(db_threads', sends[i].id).updated_at >= stored[n].created_at
    ]_vars

\* an earlier send on the same thread ended with its reply saved
HadExchange(i) ==
  \E j \in 1..Len(sends) :
    j # i /\ sends[j].id = sends[i].id /\ sends[j].outcome = "ok"

\* C5 as claimed: on a thread that already had an exchange, the step that
\* saves the user message appends it to the thread's stored messages, and
\* the failure of the model call stores nothing more, so that the stored
\* messages end with the user message.
C5_Original ==
  [][\A i \in 1..Len(sends) :
       HadExchange(i) =>
         /\ Moved(i, "saveUser", "generate") =>
              Strip(SelectMessages(db_messages', sends[i].id)) =
                Append(Strip(SelectMessages(db_messages, sends[i].id)),
                       Message("user", sends[i].content))
         /\ (Moved(i, "generate", "done") /\ sends'[i].outcome = "modelFailed") =>
              LET stored == Strip(SelectMessages(db_messages', sends[i].id))
              IN /\ UNCHANGED dbvars
                 /\ stored # <<>>
                 /\ stored[Len(stored)] = Message("user", sends[i].content)
    ]_vars

\* C6 as claimed: when the step that should save the user message stores
\* nothing, the turn ends there: the model is not called.
C6_Original ==
  [][\A i \in 1..Len(sends) :
       (/\ sends[i].pc = "saveUser"
        /\ sends'[i].pc # "saveUser"
        /\ db_messages' = db_messages) =>
         /\ sends'[i].pc = "done"
         /\ UNCHANGED dbvars
    ]_vars

\* C10 as claimed: the contents passed to the model call are, in role,
\* content and order, the messages stored for the thread at that moment.
C10_Original ==
  [][\A i \in 1..Len(sends) :
       Moved(i, "saveUser", "generate") =>
         sends'[i].contents = Strip(SelectMessages(db_messages', sends[i].id))
    ]_vars

\* C11 as claimed: every stored message has role user or model (an append
\* with any other role is refused and stores nothing).
C11_Original ==
  \A i \in 1..Len(db_messages) : db_messages[i].role \in {"user", "model"}

\* C12: a stored message keeps its id, thread_id, role, content and
\* created_at through every step and stays stored, unless the step is
\* deleteThread on the message's own thread.
C12_AppendOnly ==
  [][\A i \in 1..Len(db_messages) :
       \/ deleteThread(db_messages[i].thread_id)
       \/ /\ db_messages[i] \in Range(db_messages')
          /\ \A j \in 1..Len(db_messages') :
               db_messages'[j].id = db_messages[i].id => db_messages'[j] = db_messages[i]
    ]_vars

\* C12 witness: deleteThread has just removed one thread and its message,
\* and the older message of the other thread is still stored.
C12_Witness ==
  /\ last.route = "DELETE /api/threads/:id"
  /\ Len(db_threads) = 1
  /\ Len(db_messages) = 1
  /\ db_messages[1].id = 1
  /\ db_seq = 2

\* C13 as claimed: when a turn shows its reply or its synthetic error, the
\* selected thread is the thread the turn was started on, so the reply never
\* joins the visible list of another thread (stated for a turn that is the
\* only one in progress).
C13_Original ==
  [][\A i \in 1..Len(sends) :
       ( /\ sends[i].pc \in {"saveUser", "generate", "saveModel"}
         /\ \A j \in 1..Len(sends) : j # i => sends[j].pc = "done"
         /\ sends'[i].pc # sends[i].pc
         /\ Len(messages') > Len(messages) )
       => currentChatId = sends[i].id
    ]_vars

\* C14 as claimed: a send starts a turn only when no earlier turn is still in
\* progress (the wait for the creation of its thread included), and a send
\* with empty or whitespace-only input starts none.
C14_Original ==
  [][Len(sends') > Len(sends) =>
       /\ \A i \in 1..Len(sends) : sends[i].pc = "done"
       /\ Trim(input) # ""
    ]_vars

====
